---- MODULE Spec2Model ----
(***************************************************************************)
(* Llama3VisionTransform (torchtune/models/llama3_2_vision/_transform.py)  *)
(* and the preference losses DPOLoss / RSOLoss (torchtune/rlhf/loss/dpo.py)*)
(* as state machines.                                                      *)
(*                                                                         *)
(* Python objects that are shared by reference live on heaps:              *)
(*   objs    : the tokenizer's container objects (stop-token list,         *)
(*             special-token dict), reference -> contents                  *)
(*   samples : the sample mappings, reference -> mapping                   *)
(*   encs    : the encoder_input dicts, reference -> dict                  *)
(* An optional value (a key that may be missing from a mapping, an         *)
(* Optional[int]) is a sequence of length 0 or 1.                          *)
(***************************************************************************)
EXTENDS Integers, Sequences, FiniteSets, TLC

\* ---------------------------------------------------------------- bounds
MaxMsgs == 2        \* messages per sample
MaxMedia == 2       \* media items per sample (over all its messages)
MaxSeqLen == 2      \* the max_seq_len a transform is constructed with, when set
NCalls == 2         \* invocations in flight on one shared transform
ConcMedia == 1      \* media items per sample of the concurrent invocations
MaxTileSize == 4    \* tile_size at construction
MaxPatchSize == 2   \* patch_size at construction
MaxNumTiles == 3    \* max_num_tiles at construction
MaxChanges == 2     \* changes made to the owned tokenizer after construction
MaxLogp == 1        \* magnitude of a policy log-probability
Unit == 10          \* beta, gamma and label_smoothing are counted in 1/Unit

\* ------------------------------------------------- constants of the source
DefaultMaxNumTiles == 4
ExampleTileSize == 224
ExamplePatchSize == 14

None == <<>>
Some(v) == <<v>>

VARIABLES
    tokenizer,        \* self.tokenizer: the owned tokenizer's attributes
    objs,             \* heap of the tokenizer's container objects
    self,             \* the transform's own attributes (set in __init__)
    xattn_mask,       \* self.xattn_mask: the owned mask builder's attributes
    transform_image,  \* self.transform_image: the owned image transform's configuration
    ctor,             \* the construction arguments and the tokenizer as it was then
    samples,          \* heap of sample mappings
    encs,             \* heap of encoder_input dicts
    frames,           \* one frame per invocation of __call__: locals and position
    log,              \* per invocation, the calls it made to the owned subcomponents
    input,            \* per invocation, the arguments it was given
    loss_in,          \* the loss modules' parameters and the forward arguments
    dpo_out,          \* what DPOLoss.forward returned, once it has
    rso_out           \* what RSOLoss.forward returned, once it has

tvars == <<tokenizer, objs, self, xattn_mask, transform_image, ctor>>
cvars == <<samples, encs, frames, log, input>>
lvars == <<loss_in, dpo_out, rso_out>>
vars == <<tokenizer, objs, self, xattn_mask, transform_image, ctor,
          samples, encs, frames, log, input, loss_in, dpo_out, rso_out>>

\* ------------------------------------------------------------ input domains
GoodImages == {"cat", "dog"}
BadImage == "corrupt"
Images == GoodImages \cup {BadImage}
Texts == {"plain", "stray_image_token", "malformed"}

RECURSIVE SeqsUpTo(_, _)
SeqsUpTo(S, n) ==
    IF n = 0 THEN {<<>>}
    ELSE LET shorter == SeqsUpTo(S, n - 1)
         IN  shorter \cup {Append(q, x) : q \in {r \in shorter : Len(r) = n - 1}, x \in S}

MessagesWith(k, texts) ==
    {[media |-> m, text |-> t] : m \in {q \in SeqsUpTo(Images, k) : Len(q) = k}, t \in texts}

\* All message lists of at most n messages holding at most k media items.
RECURSIVE MessageLists(_, _, _)
MessageLists(n, k, texts) ==
    IF n = 0 THEN {<<>>}
    ELSE {<<>>} \cup
         UNION {{<<m>> \o rest : m \in MessagesWith(j, texts),
                                 rest \in MessageLists(n - 1, k - j, texts)} : j \in 0..k}

Samples == MessageLists(MaxMsgs, MaxMedia, Texts)
ConcSamples == MessageLists(1, ConcMedia, {"plain"})
PropSamples ==
    {<<>>, <<[media |-> <<"cat">>, text |-> "plain"]>>,
     <<[media |-> <<"corrupt">>, text |-> "plain"]>>}

\* ------------------------------------------------- the owned subcomponents
\* The tokenizer as llama3_tokenizer builds it. stop_tokens and special_tokens
\* hold references to container objects on the heap objs.
NewTokenizer(max_seq_len) ==
    [stop_tokens |-> "stop#0", special_tokens |-> "special#0", pad_id |-> 0,
     base_vocab_size |-> 1, vocab_size |-> 2, image_id |-> "<|image|>",
     max_seq_len |-> max_seq_len]

NewObjs ==
    [r \in {"stop#0", "stop#1", "special#0", "special#1"} |->
        IF r = "stop#0" THEN {"<|eot_id|>"}
        ELSE IF r = "special#0" THEN {"<|image|>", "<|eot_id|>"}
        ELSE {}]

\* VisionCrossAttentionMask.patches_per_tile, from tile_size and patch_size.
PatchesPerTile(tile_size, patch_size) ==
    (tile_size \div patch_size) * (tile_size \div patch_size)

NewXattnMask(tile_size, patch_size, image_token_id) ==
    [tile_size |-> tile_size, patch_size |-> patch_size,
     image_token_id |-> image_token_id,
     patches_per_tile |-> PatchesPerTile(tile_size, patch_size)]

NewTransformImage(tile_size, max_num_tiles) ==
    [tile_size |-> tile_size, max_num_tiles |-> max_num_tiles,
     possible_resolutions |-> None, resample |-> "bilinear",
     resize_to_max_canvas |-> FALSE]

\* ------------------------------------------ Llama3VisionTransform.__init__
MutImageSeqLenNoClassSlot(max_num_tiles, patches_per_tile) ==
    max_num_tiles * patches_per_tile

ImageSeqLen(max_num_tiles, patches_per_tile) ==
    max_num_tiles * (patches_per_tile + 1)

NewSelf(tok, xm, max_num_tiles, max_seq_len) ==
    [stop_tokens |-> tok.stop_tokens,
     special_tokens |-> tok.special_tokens,
     max_seq_len |-> max_seq_len,
     max_num_tiles |-> max_num_tiles,
     image_seq_len |-> ImageSeqLen(max_num_tiles, xm.patches_per_tile),
     prompt_template |-> None,
     pad_id |-> tok.pad_id]

IdleFrame ==
    [pc |-> "idle", sample |-> 0, inference |-> FALSE, encoder_input |-> 0,
     messages |-> <<>>, mi |-> 1, ii |-> 1, err |-> "none", ret |-> None]

EmptySample ==
    [messages |-> None, encoder_input |-> None, tokens |-> None,
     mask |-> None, encoder_mask |-> None]

NoInput == [sample |-> 0, messages |-> <<>>, inference |-> FALSE]

NoLossIn ==
    [beta |-> 0, gamma |-> 0, label_smoothing |-> 0,
     policy |-> [chosen_logps |-> <<0, 0>>, rejected_logps |-> <<0, 0>>],
     reference |-> [chosen_logps |-> <<0, 0>>, rejected_logps |-> <<0, 0>>]]

\* The transform right after Llama3VisionTransform(path, tile_size=..., ...),
\* with no invocation of __call__ started for any of the calls.
Construct(tile_size, patch_size, max_num_tiles, max_seq_len, calls) ==
    /\ tokenizer = NewTokenizer(max_seq_len)
    /\ objs = NewObjs
    /\ transform_image = NewTransformImage(tile_size, max_num_tiles)
    /\ xattn_mask = NewXattnMask(tile_size, patch_size, tokenizer.image_id)
    /\ self = NewSelf(tokenizer, xattn_mask, max_num_tiles, max_seq_len)
    /\ ctor = [tile_size |-> tile_size, patch_size |-> patch_size,
               max_num_tiles |-> max_num_tiles, max_seq_len |-> max_seq_len,
               tokenizer |-> tokenizer, changes |-> 0]
    /\ samples = [c \in calls |-> EmptySample]
    /\ encs = [r \in {0} \cup calls |-> [images |-> <<>>, aspect_ratio |-> <<>>]]
    /\ frames = [c \in calls |-> IdleFrame]
    /\ log = [c \in calls |-> <<>>]
    /\ input = [c \in calls |-> NoInput]

NoLoss ==
    /\ loss_in = NoLossIn
    /\ dpo_out = None
    /\ rso_out = None

\* ------------------------------------------------------ delegated properties
MutBaseVocabSizeCached == ctor.tokenizer.base_vocab_size

base_vocab_size == tokenizer.base_vocab_size

vocab_size == tokenizer.vocab_size

\* Reading the attribute the transform stores: the object it refers to, as it is now.
stop_tokens == objs[self.stop_tokens]
special_tokens == objs[self.special_tokens]
pad_id == self.pad_id
image_seq_len == self.image_seq_len

\* --------------------------------------- the subcomponents' sample-level calls
\* CLIPImageTransform.__call__({"image": image}, inference): the tiles and the
\* aspect ratio of the image; an image it cannot handle raises.
ImageOk(image) == image # BadImage

TransformImageOut(image, inference) ==
    [image |-> <<"tiles", image>>, aspect_ratio |-> <<"aspect_ratio", image>>]

TextTokens(text, image_id) ==
    IF text = "stray_image_token" THEN <<"text", image_id>> ELSE <<"text">>

RECURSIVE Repeat(_, _)
Repeat(x, n) == IF n = 0 THEN <<>> ELSE <<x>> \o Repeat(x, n - 1)

\* One image token per media item of a message, then the message's text.
RECURSIVE TokenizeMessages(_, _)
TokenizeMessages(messages, image_id) ==
    IF messages = <<>> THEN <<>>
    ELSE Repeat(image_id, Len(Head(messages).media))
         \o TextTokens(Head(messages).text, image_id)
         \o TokenizeMessages(Tail(messages), image_id)

Truncate(tokens, max_seq_len) ==
    IF max_seq_len # None /\ Len(tokens) > max_seq_len[1]
    THEN SubSeq(tokens, 1, max_seq_len[1])
    ELSE tokens

\* The tokenizer's sample-level call: adds tokens and mask to the mapping it is
\* given and returns that mapping.
TokenizerCall(ref, tok) ==
    LET sample == samples[ref]
    IN  IF sample.messages = None
        THEN [ok |-> FALSE, err |-> "KeyError", ret |-> ref, sample |-> sample]
        ELSE IF \E i \in 1..Len(sample.messages[1]) : sample.messages[1][i].text = "malformed"
        THEN [ok |-> FALSE, err |-> "TokenizationError", ret |-> ref, sample |-> sample]
        ELSE LET tokens == Truncate(TokenizeMessages(sample.messages[1], tok.image_id),
                                    tok.max_seq_len)
             IN  [ok |-> TRUE, err |-> "none", ret |-> ref,
                  sample |-> [sample EXCEPT
                                 !.tokens = Some(tokens),
                                 !.mask = Some([i \in 1..Len(tokens) |->
                                                   tokens[i] = tok.image_id])]]

\* The positions of the image token in tokens, in order.
RECURSIVE ImagePositions(_, _, _)
ImagePositions(tokens, image_token_id, i) ==
    IF i > Len(tokens) THEN <<>>
    ELSE (IF tokens[i] = image_token_id THEN <<i>> ELSE <<>>)
         \o ImagePositions(tokens, image_token_id, i + 1)

\* The mask builder's sample-level call: aligns the k-th image token with the
\* k-th image of encoder_input; more image tokens than images raises.
XattnMaskCall(ref, xm) ==
    LET sample == samples[ref]
    IN  IF sample.tokens = None \/ sample.encoder_input = None
        THEN [ok |-> FALSE, err |-> "KeyError", ret |-> ref, sample |-> sample]
        ELSE LET pos == ImagePositions(sample.tokens[1], xm.image_token_id, 1)
                 images == encs[sample.encoder_input[1]].images
             IN  IF Len(pos) > Len(images)
                 THEN [ok |-> FALSE, err |-> "MaskAlignmentError", ret |-> ref,
                       sample |-> sample]
                 ELSE [ok |-> TRUE, err |-> "none", ret |-> ref,
                       sample |-> [sample EXCEPT !.encoder_mask =
                           Some([k \in 1..Len(pos) |->
                                    [token |-> pos[k], image |-> images[k],
                                     patches_per_tile |-> xm.patches_per_tile]])]]

\* ------------------------------------------ Llama3VisionTransform.__call__
\* The nested for loops: the first position at or after (mi, ii) that holds a
\* media item, or mi = Len(messages) + 1 when the loops are over.
RECURSIVE Seek(_, _, _)
Seek(messages, mi, ii) ==
    IF mi > Len(messages) THEN <<mi, 1>>
    ELSE IF ii > Len(messages[mi].media) THEN Seek(messages, mi + 1, 1)
    ELSE <<mi, ii>>

MutSkipTokenizer == "xattn_mask"

AfterAttach == "tokenizer"

AfterTokenizer == "xattn_mask"

AfterXattnMask == "return"

\* The frame with the loops moved to (mi, ii).
LoopAt(f, mi, ii) ==
    LET pos == Seek(f.messages, mi, ii)
    IN  [f EXCEPT !.mi = pos[1], !.ii = pos[2],
                  !.pc = IF pos[1] > Len(f.messages) THEN "attach" ELSE "transform_image"]

\* A raising stage is swallowed and the call goes on with the next step.
MutSwallow(f, err) ==
    IF f.pc = "transform_image" THEN LoopAt(f, f.mi, f.ii + 1)
    ELSE IF f.pc = "tokenizer" THEN [f EXCEPT !.pc = AfterTokenizer]
    ELSE [f EXCEPT !.pc = AfterXattnMask]

\* An exception of a subcomponent is caught nowhere in __call__: it leaves the call.
Raise(f, err) == [f EXCEPT !.pc = "raised", !.err = err]

\* One dict for all the invocations instead of a new one for each.
MutSharedEncoderInput(c) == 0

\* The dict that encoder_input = {...} creates: a new object for each invocation.
NewEncoderInputRef(c) == c

NewEncoderInput == [images |-> <<>>, aspect_ratio |-> <<>>]

MutAppendOutFront(enc, out) ==
    [images |-> <<out.image>> \o enc.images,
     aspect_ratio |-> <<out.aspect_ratio>> \o enc.aspect_ratio]

AppendOut(enc, out) ==
    [images |-> Append(enc.images, out.image),
     aspect_ratio |-> Append(enc.aspect_ratio, out.aspect_ratio)]

MutNoAttach(sample, ref) == sample

AttachEncoderInput(sample, ref) == [sample EXCEPT !.encoder_input = Some(ref)]

\* A copy of the mapping is returned instead of the mapping.
MutReturnCopy(f) == 0

ReturnValue(f) == f.sample

\* The caller makes a sample holding messages and calls the transform on it.
Call(c, messages, inference) ==
    /\ frames[c].pc = "idle"
    /\ samples' = [samples EXCEPT ![c] = [EmptySample EXCEPT !.messages = Some(messages)]]
    /\ input' = [input EXCEPT ![c] = [sample |-> c, messages |-> messages,
                                       inference |-> inference]]
    /\ encs' = [encs EXCEPT ![NewEncoderInputRef(c)] = NewEncoderInput]
    /\ frames' = [frames EXCEPT ![c] =
           LoopAt([IdleFrame EXCEPT !.sample = c, !.inference = inference,
                                    !.encoder_input = NewEncoderInputRef(c),
                                    !.messages = messages], 1, 1)]
    /\ UNCHANGED <<log, tvars, lvars>>

\* One pass of the inner loop's body.
TransformImage(c) ==
    LET f == frames[c]
        image == f.messages[f.mi].media[f.ii]
    IN  /\ f.pc = "transform_image"
        /\ log' = [log EXCEPT ![c] = Append(@, <<"transform_image", image, f.inference>>)]
        /\ IF ImageOk(image)
           THEN /\ encs' = [encs EXCEPT ![f.encoder_input] =
                               AppendOut(@, TransformImageOut(image, f.inference))]
                /\ frames' = [frames EXCEPT ![c] = LoopAt(f, f.mi, f.ii + 1)]
           ELSE /\ encs' = encs
                /\ frames' = [frames EXCEPT ![c] = Raise(f, "ImageTransformError")]
        /\ UNCHANGED <<samples, input, tvars, lvars>>

\* sample["encoder_input"] = encoder_input
Attach(c) ==
    LET f == frames[c]
    IN  /\ f.pc = "attach"
        /\ samples' = [samples EXCEPT ![f.sample] = AttachEncoderInput(@, f.encoder_input)]
        /\ frames' = [frames EXCEPT ![c].pc = AfterAttach]
        /\ UNCHANGED <<encs, log, input, tvars, lvars>>

\* sample = self.tokenizer(sample, inference=inference)
Tokenize(c) ==
    LET f == frames[c]
        r == TokenizerCall(f.sample, tokenizer)
    IN  /\ f.pc = "tokenizer"
        /\ log' = [log EXCEPT ![c] = Append(@, <<"tokenizer", f.sample, f.inference>>)]
        /\ samples' = [samples EXCEPT ![f.sample] = r.sample]
        /\ frames' = [frames EXCEPT ![c] =
               IF r.ok THEN [f EXCEPT !.sample = r.ret, !.pc = AfterTokenizer]
               ELSE Raise(f, r.err)]
        /\ UNCHANGED <<encs, input, tvars, lvars>>

\* sample = self.xattn_mask(sample, inference=inference)
BuildMask(c) ==
    LET f == frames[c]
        r == XattnMaskCall(f.sample, xattn_mask)
    IN  /\ f.pc = "xattn_mask"
        /\ log' = [log EXCEPT ![c] = Append(@, <<"xattn_mask", f.sample, f.inference>>)]
        /\ samples' = [samples EXCEPT ![f.sample] = r.sample]
        /\ frames' = [frames EXCEPT ![c] =
               IF r.ok THEN [f EXCEPT !.sample = r.ret, !.pc = AfterXattnMask]
               ELSE Raise(f, r.err)]
        /\ UNCHANGED <<encs, input, tvars, lvars>>

\* return sample
Return(c) ==
    LET f == frames[c]
    IN  /\ f.pc = "return"
        /\ frames' = [frames EXCEPT ![c] = [f EXCEPT !.pc = "done",
                                                     !.ret = Some(ReturnValue(f))]]
        /\ UNCHANGED <<samples, encs, log, input, tvars, lvars>>

Step(c) ==
    \/ TransformImage(c)
    \/ Attach(c)
    \/ Tokenize(c)
    \/ BuildMask(c)
    \/ Return(c)

\* ----------------------------------------------------------- specifications
\* One invocation on a transform built as in the class's example, with
\* max_seq_len left out or set.
Init ==
    /\ \E msl \in {None, Some(MaxSeqLen)} :
          Construct(ExampleTileSize, ExamplePatchSize, DefaultMaxNumTiles, msl, {1})
    /\ NoLoss

Next ==
    \/ /\ frames[1].pc = "idle"
       /\ \E messages \in Samples, inference \in BOOLEAN : Call(1, messages, inference)
    \/ Step(1)

Spec == Init /\ [][Next]_vars

\* NCalls invocations on distinct samples, their steps interleaved, on one
\* shared transform; inference is left at its default.
Calls == 1..NCalls

InitConc ==
    /\ Construct(ExampleTileSize, ExamplePatchSize, DefaultMaxNumTiles, None, Calls)
    /\ NoLoss

NextConc ==
    \/ \E c \in Calls :
          /\ frames[c].pc = "idle"
          /\ \E messages \in ConcSamples : Call(c, messages, FALSE)
    \/ \E c \in Calls : Step(c)

SpecConc == InitConc /\ [][NextConc]_vars

\* ------------------------------------------- changes to the owned tokenizer
Changed(tok) ==
    /\ ctor.changes < MaxChanges
    /\ tokenizer' = tok
    /\ ctor' = [ctor EXCEPT !.changes = @ + 1]
    /\ UNCHANGED <<self, xattn_mask, transform_image, cvars, lvars>>

\* tokenizer.pad_id = <another id>
SetPadId ==
    /\ Changed([tokenizer EXCEPT !.pad_id = @ + 1])
    /\ objs' = objs

\* The vocabulary grows by a token.
GrowVocab ==
    /\ Changed([tokenizer EXCEPT !.vocab_size = @ + 1])
    /\ objs' = objs

GrowBaseVocab ==
    /\ Changed([tokenizer EXCEPT !.base_vocab_size = @ + 1, !.vocab_size = @ + 1])
    /\ objs' = objs

\* tokenizer.stop_tokens.append(...): the list object itself changes.
AddStopToken ==
    /\ "<|eom_id|>" \notin objs[tokenizer.stop_tokens]
    /\ Changed(tokenizer)
    /\ objs' = [objs EXCEPT ![tokenizer.stop_tokens] = @ \cup {"<|eom_id|>"}]

\* tokenizer.stop_tokens = [...]: the attribute refers to another list.
ReplaceStopTokens ==
    /\ tokenizer.stop_tokens = "stop#0"
    /\ Changed([tokenizer EXCEPT !.stop_tokens = "stop#1"])
    /\ objs' = [objs EXCEPT !["stop#1"] = {"<|eom_id|>"}]

\* tokenizer.special_tokens[...] = ...: the dict object itself changes.
AddSpecialToken ==
    /\ "<|extra|>" \notin objs[tokenizer.special_tokens]
    /\ Changed(tokenizer)
    /\ objs' = [objs EXCEPT ![tokenizer.special_tokens] = @ \cup {"<|extra|>"}]

\* tokenizer.special_tokens = {...}: the attribute refers to another dict.
ReplaceSpecialTokens ==
    /\ tokenizer.special_tokens = "special#0"
    /\ Changed([tokenizer EXCEPT !.special_tokens = "special#1"])
    /\ objs' = [objs EXCEPT !["special#1"] = {"<|image|>"}]

\* Any construction, then changes to the tokenizer and one invocation, in any order.
InitProps ==
    /\ \E tile_size \in 1..MaxTileSize, patch_size \in 1..MaxPatchSize,
          max_num_tiles \in 1..MaxNumTiles :
          Construct(tile_size, patch_size, max_num_tiles, None, {1})
    /\ NoLoss

NextProps ==
    \/ SetPadId
    \/ GrowVocab
    \/ GrowBaseVocab
    \/ AddStopToken
    \/ ReplaceStopTokens
    \/ AddSpecialToken
    \/ ReplaceSpecialTokens
    \/ /\ frames[1].pc = "idle"
       /\ \E messages \in PropSamples : Call(1, messages, FALSE)
    \/ Step(1)

SpecProps == InitProps /\ [][NextProps]_vars

\* ---------------------------------------------------- DPOLoss and RSOLoss
\* A tensor of one value per batch example is a sequence; log-probabilities are
\* whole numbers, beta, gamma and label_smoothing are counted in 1/Unit, so
\* rewards and the hinge loss are counted in 1/Unit as well.
Sub(a, b) == [i \in 1..Len(a) |-> a[i] - b[i]]
Scale(k, a) == [i \in 1..Len(a) |-> k * a[i]]

Logits(policy, reference) ==
    LET pi_logratios == Sub(policy.chosen_logps, policy.rejected_logps)
        ref_logratios == Sub(reference.chosen_logps, reference.rejected_logps)
    IN  Sub(pi_logratios, ref_logratios)

ChosenRewards(k, policy, reference) ==
    Scale(k, Sub(policy.chosen_logps, reference.chosen_logps))

MutRejectedRewardsFromChosen(k, policy, reference) ==
    Scale(k, Sub(policy.chosen_logps, reference.chosen_logps))

RejectedRewards(k, policy, reference) ==
    Scale(k, Sub(policy.rejected_logps, reference.rejected_logps))

\* -logsigmoid(beta * logits) * (1 - label_smoothing)
\*     - logsigmoid(-beta * logits) * label_smoothing, kept as its terms: the
\* arguments of logsigmoid and their weights.
DPOLosses(beta, label_smoothing, logits) ==
    [i \in 1..Len(logits) |->
        [pos_arg |-> beta * logits[i], pos_weight |-> Unit - label_smoothing,
         neg_arg |-> (0 - beta) * logits[i], neg_weight |-> label_smoothing]]

MutReluIdentity(x) == x

Relu(x) == IF x > 0 THEN x ELSE 0

RSOLosses(gamma, logits) ==
    [i \in 1..Len(logits) |-> Relu(Unit - gamma * logits[i])]

DPOForward ==
    /\ dpo_out = None
    /\ dpo_out' = Some(
           [losses |-> DPOLosses(loss_in.beta, loss_in.label_smoothing,
                                 Logits(loss_in.policy, loss_in.reference)),
            chosen_rewards |-> ChosenRewards(loss_in.beta, loss_in.policy, loss_in.reference),
            rejected_rewards |->
                RejectedRewards(loss_in.beta, loss_in.policy, loss_in.reference)])
    /\ UNCHANGED <<loss_in, rso_out, tvars, cvars>>

RSOForward ==
    /\ rso_out = None
    /\ rso_out' = Some(
           [losses |-> RSOLosses(loss_in.gamma, Logits(loss_in.policy, loss_in.reference)),
            chosen_rewards |-> ChosenRewards(loss_in.gamma, loss_in.policy, loss_in.reference),
            rejected_rewards |->
                RejectedRewards(loss_in.gamma, loss_in.policy, loss_in.reference)])
    /\ UNCHANGED <<loss_in, dpo_out, tvars, cvars>>

\* A batch of two examples; beta and gamma are 0.1 (the default) or 0.5.
Temperatures == {1, 5}
PolicyLogps == (0 - MaxLogp)..MaxLogp
ReferenceLogps == {0 - 1, 0}

InitLoss ==
    /\ Construct(ExampleTileSize, ExamplePatchSize, DefaultMaxNumTiles, None, {1})
    /\ loss_in \in
          [beta : Temperatures, gamma : Temperatures, label_smoothing : {0, 1},
           policy : [chosen_logps : PolicyLogps \X PolicyLogps,
                     rejected_logps : PolicyLogps \X PolicyLogps],
           reference : [chosen_logps : ReferenceLogps \X ReferenceLogps,
                        rejected_logps : ReferenceLogps \X ReferenceLogps]]
    /\ dpo_out = None
    /\ rso_out = None

NextLoss ==
    \/ DPOForward
    \/ RSOForward

SpecLoss == InitLoss /\ [][NextLoss]_vars

\* ------------------------------------------------------------------- claims
\* What an invocation is expected to do, computed from its arguments alone.
RECURSIVE FlatMedia(_)
FlatMedia(messages) ==
    IF messages = <<>> THEN <<>>
    ELSE Head(messages).media \o FlatMedia(Tail(messages))

Started(c) == frames[c].pc # "idle"
Media(c) == FlatMedia(input[c].messages)
Sample(c) == samples[input[c].sample]
HasEncoderInput(c) == Sample(c).encoder_input # None
EncoderInput(c) == encs[Sample(c).encoder_input[1]]

ExpectedImages(c) ==
    [i \in 1..Len(Media(c)) |-> TransformImageOut(Media(c)[i], input[c].inference).image]
ExpectedAspectRatios(c) ==
    [i \in 1..Len(Media(c)) |->
        TransformImageOut(Media(c)[i], input[c].inference).aspect_ratio]
ExpectedLog(c) ==
    [i \in 1..Len(Media(c)) |-> <<"transform_image", Media(c)[i], input[c].inference>>]
    \o <<<<"tokenizer", input[c].sample, input[c].inference>>,
         <<"xattn_mask", input[c].sample, input[c].inference>>>>
FullTokens(c) == TokenizeMessages(input[c].messages, tokenizer.image_id)
ExpectedTokens(c) == Truncate(FullTokens(c), ctor.max_seq_len)
ImageTokenCount(c) == Len(ImagePositions(ExpectedTokens(c), tokenizer.image_id, 1))
IsPrefix(p, q) == Len(p) <= Len(q) /\ SubSeq(q, 1, Len(p)) = p

BadMedia(c) == {i \in 1..Len(Media(c)) : ~ImageOk(Media(c)[i])}
Malformed(c) ==
    \E i \in 1..Len(input[c].messages) : input[c].messages[i].text = "malformed"
Min(S) == CHOOSE x \in S : \A y \in S : x <= y

\* The call the invocation fails in, counted along ExpectedLog; 0 when none fails.
FailStage(c) ==
    IF BadMedia(c) # {} THEN Min(BadMedia(c))
    ELSE IF Malformed(c) THEN Len(Media(c)) + 1
    ELSE IF ImageTokenCount(c) > Len(Media(c)) THEN Len(Media(c)) + 2
    ELSE 0
ExpectedErr(c) ==
    IF BadMedia(c) # {} THEN "ImageTransformError"
    ELSE IF Malformed(c) THEN "TokenizationError"
    ELSE "MaskAlignmentError"
PastTokenizer(c) ==
    \/ frames[c].pc \in {"xattn_mask", "return", "done"}
    \/ frames[c].pc = "raised" /\ frames[c].err \notin {"ImageTransformError", "TokenizationError"}

\* C1: once __call__ has completed, encoder_input.images and
\* encoder_input.aspect_ratio have the same length, the number of media items
\* of all the messages, and their i-th entries are the image transform's output
\* for the i-th media item in the order of the messages and of each message's
\* media.
Thm_C1_EncoderInputParallel ==
    \A c \in DOMAIN frames :
        frames[c].pc = "done" =>
            /\ HasEncoderInput(c)
            /\ Len(EncoderInput(c).images) = Len(EncoderInput(c).aspect_ratio)
            /\ Len(EncoderInput(c).images) = Len(Media(c))
            /\ \A i \in 1..Len(Media(c)) :
                  /\ EncoderInput(c).images[i] = ExpectedImages(c)[i]
                  /\ EncoderInput(c).aspect_ratio[i] = ExpectedAspectRatios(c)[i]

Wit_C1_TwoMessagesTwoImages ==
    /\ frames[1].pc = "done"
    /\ Len(input[1].messages) = 2
    /\ input[1].messages[1].media = <<"dog">>
    /\ input[1].messages[2].media = <<"cat">>
    /\ EncoderInput(1).images = <<<<"tiles", "dog">>, <<"tiles", "cat">>>>

\* C2: the calls an invocation makes are, in this order, one image transform
\* call per media item, then one tokenizer call, then one mask builder call:
\* what it has called so far is always a prefix of that list and, once it has
\* completed, all of it; encoder_input is in the sample before tokens and mask,
\* which come together and before encoder_mask.
Thm_C2_StageOrder ==
    \A c \in DOMAIN frames :
        Started(c) =>
            /\ IsPrefix(log[c], ExpectedLog(c))
            /\ frames[c].pc = "done" => log[c] = ExpectedLog(c)
            /\ (Sample(c).tokens # None) <=> (Sample(c).mask # None)
            /\ Sample(c).tokens # None =>
                  /\ HasEncoderInput(c)
                  /\ Len(log[c]) > Len(Media(c))
            /\ Sample(c).encoder_mask # None =>
                  /\ Sample(c).tokens # None
                  /\ Len(log[c]) = Len(Media(c)) + 2

Wit_C2_AllStagesRun ==
    /\ frames[1].pc = "done"
    /\ Len(Media(1)) = 2
    /\ Len(log[1]) = 4
    /\ Sample(1).encoder_mask # None

\* C3: for a sample whose images and texts are all usable and whose tokens
\* outnumber max_seq_len, the tokenizer stage does not raise, tokens and mask
\* have length max_seq_len after it, and from then on encoder_input is the dict
\* attached before it, holding the outputs for all the media items; the call
\* completes unless the image tokens that are left outnumber the images.
OverLength(c) ==
    /\ Started(c)
    /\ BadMedia(c) = {}
    /\ ~Malformed(c)
    /\ ctor.max_seq_len # None
    /\ Len(FullTokens(c)) > ctor.max_seq_len[1]

Thm_C3_TruncationLeavesEncoderInput ==
    \A c \in DOMAIN frames :
        OverLength(c) =>
            /\ frames[c].pc = "raised" =>
                  /\ frames[c].err = "MaskAlignmentError"
                  /\ ImageTokenCount(c) > Len(Media(c))
            /\ PastTokenizer(c) =>
                  /\ Len(Sample(c).tokens[1]) = ctor.max_seq_len[1]
                  /\ Len(Sample(c).mask[1]) = ctor.max_seq_len[1]
                  /\ Sample(c).encoder_input = Some(frames[c].encoder_input)
                  /\ EncoderInput(c).images = ExpectedImages(c)
                  /\ EncoderInput(c).aspect_ratio = ExpectedAspectRatios(c)

Wit_C3_OrphanedImage ==
    /\ OverLength(1)
    /\ frames[1].pc = "done"
    /\ ImageTokenCount(1) < Len(EncoderInput(1).images)
    /\ Len(Sample(1).tokens[1]) = MaxSeqLen

\* C4: an invocation in which a stage fails makes no call after the failing
\* one, has raised that stage's error as soon as the failing call is made, and
\* never returns; an invocation raises only where a stage fails.
Thm_C4_FailureAborts ==
    \A c \in DOMAIN frames :
        Started(c) =>
            /\ FailStage(c) > 0 =>
                  /\ Len(log[c]) <= FailStage(c)
                  /\ frames[c].pc \notin {"return", "done"}
                  /\ frames[c].ret = None
                  /\ Len(log[c]) = FailStage(c) =>
                        /\ frames[c].pc = "raised"
                        /\ frames[c].err = ExpectedErr(c)
            /\ frames[c].pc = "raised" =>
                  /\ FailStage(c) > 0
                  /\ Len(log[c]) = FailStage(c)

Wit_C4_MaskBuilderRaises ==
    /\ frames[1].pc = "raised"
    /\ frames[1].err = "MaskAlignmentError"
    /\ Len(Media(1)) = 1
    /\ ImageTokenCount(1) = 2
    /\ Sample(1).encoder_mask = None

\* C7: __call__ returns the mapping it was given, and that mapping's messages
\* are the ones it was given with, at every step of the call and after it.
Thm_C7_SameMappingSameMessages ==
    \A c \in DOMAIN frames :
        Started(c) =>
            /\ Sample(c).messages = Some(input[c].messages)
            /\ frames[c].messages = input[c].messages
            /\ frames[c].pc = "done" => frames[c].ret = Some(input[c].sample)

Wit_C7_Returned ==
    /\ frames[1].pc = "done"
    /\ frames[1].ret = Some(1)
    /\ Len(input[1].messages) = 2
    /\ Len(Media(1)) = 2

\* C5 as stated: each of the five values read on the transform is the owned
\* tokenizer's current value.
Orig_C5_AllReadThrough ==
    /\ stop_tokens = objs[tokenizer.stop_tokens]
    /\ special_tokens = objs[tokenizer.special_tokens]
    /\ pad_id = tokenizer.pad_id
    /\ base_vocab_size = tokenizer.base_vocab_size
    /\ vocab_size = tokenizer.vocab_size

\* C5, amended: base_vocab_size and vocab_size read on the transform are the
\* tokenizer's current values; stop_tokens, special_tokens and pad_id are what
\* the tokenizer held when the transform was constructed - the same list and
\* dict objects, so a change made to those objects shows, and the pad id as it
\* was - and equal the tokenizer's current value as long as the tokenizer's
\* attribute has not been assigned anew.
Thm_C5_VocabLiveOthersBoundAtConstruction ==
    /\ base_vocab_size = tokenizer.base_vocab_size
    /\ vocab_size = tokenizer.vocab_size
    /\ self.stop_tokens = ctor.tokenizer.stop_tokens
    /\ self.special_tokens = ctor.tokenizer.special_tokens
    /\ pad_id = ctor.tokenizer.pad_id
    /\ tokenizer.stop_tokens = ctor.tokenizer.stop_tokens =>
          stop_tokens = objs[tokenizer.stop_tokens]
    /\ tokenizer.special_tokens = ctor.tokenizer.special_tokens =>
          special_tokens = objs[tokenizer.special_tokens]
    /\ tokenizer.pad_id = ctor.tokenizer.pad_id => pad_id = tokenizer.pad_id

Wit_C5_TokenizerChanged ==
    /\ tokenizer.stop_tokens # ctor.tokenizer.stop_tokens
    /\ stop_tokens # objs[tokenizer.stop_tokens]
    /\ vocab_size # ctor.tokenizer.vocab_size

\* C6: whatever the interleaving, an invocation's encoder_input holds outputs
\* for its own media items only, in order; an invocation raises exactly when
\* it would alone; and one that has completed leaves in its sample the
\* encoder_input, tokens, mask and encoder_mask it would leave alone.
AloneEncoderMask(c) ==
    LET pos == ImagePositions(ExpectedTokens(c), xattn_mask.image_token_id, 1)
    IN  [k \in 1..Len(pos) |->
            [token |-> pos[k], image |-> ExpectedImages(c)[k],
             patches_per_tile |-> xattn_mask.patches_per_tile]]

Thm_C6_InvocationsIndependent ==
    \A c \in DOMAIN frames :
        Started(c) =>
            /\ IsPrefix(encs[frames[c].encoder_input].images, ExpectedImages(c))
            /\ IsPrefix(encs[frames[c].encoder_input].aspect_ratio, ExpectedAspectRatios(c))
            /\ frames[c].pc = "raised" => FailStage(c) > 0
            /\ frames[c].pc = "done" =>
                  /\ FailStage(c) = 0
                  /\ Sample(c).encoder_input = Some(frames[c].encoder_input)
                  /\ EncoderInput(c).images = ExpectedImages(c)
                  /\ EncoderInput(c).aspect_ratio = ExpectedAspectRatios(c)
                  /\ Sample(c).tokens = Some(ExpectedTokens(c))
                  /\ Sample(c).mask =
                        Some([i \in 1..Len(ExpectedTokens(c)) |->
                                 ExpectedTokens(c)[i] = tokenizer.image_id])
                  /\ Sample(c).encoder_mask = Some(AloneEncoderMask(c))

Wit_C6_BothDone ==
    /\ frames[1].pc = "done"
    /\ frames[2].pc = "done"
    /\ EncoderInput(1).images = <<<<"tiles", "cat">>>>
    /\ EncoderInput(2).images = <<<<"tiles", "dog">>>>

\* C8: image_seq_len is max_num_tiles * (patches_per_tile + 1), for the
\* max_num_tiles the transform was constructed with and the patches_per_tile
\* its mask builder has from tile_size and patch_size, whatever has been
\* called since.
Thm_C8_ImageSeqLen ==
    /\ xattn_mask.patches_per_tile = PatchesPerTile(ctor.tile_size, ctor.patch_size)
    /\ self.max_num_tiles = ctor.max_num_tiles
    /\ image_seq_len = ctor.max_num_tiles * (xattn_mask.patches_per_tile + 1)

Wit_C8_AfterCall ==
    /\ frames[1].pc = "done"
    /\ ctor.max_num_tiles = 3
    /\ ctor.tile_size = 4
    /\ ctor.patch_size = 2
    /\ image_seq_len = 15

\* C9: both variants return, for every example, rewards of
\* scale * (policy logp - reference logp) of the same response, with scale beta
\* for DPOLoss and gamma for RSOLoss; with beta = gamma the two return the same
\* rewards.
Reward(k, policy_logps, reference_logps, i) == k * (policy_logps[i] - reference_logps[i])

RewardsAre(out, k) ==
    \A i \in DOMAIN loss_in.policy.chosen_logps :
        /\ out.chosen_rewards[i] =
              Reward(k, loss_in.policy.chosen_logps, loss_in.reference.chosen_logps, i)
        /\ out.rejected_rewards[i] =
              Reward(k, loss_in.policy.rejected_logps, loss_in.reference.rejected_logps, i)

Thm_C9_Rewards ==
    /\ dpo_out # None => RewardsAre(dpo_out[1], loss_in.beta)
    /\ rso_out # None => RewardsAre(rso_out[1], loss_in.gamma)
    /\ (dpo_out # None /\ rso_out # None /\ loss_in.beta = loss_in.gamma) =>
          /\ dpo_out[1].chosen_rewards = rso_out[1].chosen_rewards
          /\ dpo_out[1].rejected_rewards = rso_out[1].rejected_rewards

Wit_C9_BothForwardsSameScale ==
    /\ dpo_out # None
    /\ rso_out # None
    /\ loss_in.beta = loss_in.gamma
    /\ loss_in.label_smoothing = 1
    /\ dpo_out[1].chosen_rewards = <<5, 0 - 5>>
    /\ dpo_out[1].rejected_rewards = <<0, 10>>

\* C10: RSOLoss's loss of an example is max(0, 1 - gamma * logits), with logits
\* = (policy chosen - policy rejected) - (reference chosen - reference
\* rejected): never negative, and 0 exactly when gamma * logits >= 1.
Max(a, b) == IF a >= b THEN a ELSE b

HingeLogits(i) ==
    (loss_in.policy.chosen_logps[i] - loss_in.policy.rejected_logps[i])
    - (loss_in.reference.chosen_logps[i] - loss_in.reference.rejected_logps[i])

Thm_C10_HingeLoss ==
    rso_out # None =>
        \A i \in DOMAIN loss_in.policy.chosen_logps :
            /\ rso_out[1].losses[i] = Max(0, Unit - loss_in.gamma * HingeLogits(i))
            /\ rso_out[1].losses[i] >= 0
            /\ rso_out[1].losses[i] = 0 <=> loss_in.gamma * HingeLogits(i) >= Unit

Wit_C10_ZeroAndPositive ==
    /\ rso_out # None
    /\ loss_in.gamma * HingeLogits(1) >= Unit
    /\ rso_out[1].losses[1] = 0
    /\ HingeLogits(2) < 0
    /\ rso_out[1].losses[2] > Unit
====
